---------------------------- MODULE Spec2Model ----------------------------
(***************************************************************************)
(* The migration orchestration layer of diesel_cli (src/diesel_cli/src/    *)
(* main.rs): directory resolution, the redo protocol and the schema-sync   *)
(* guard, as one state machine.  One behaviour is a sequence of command    *)
(* invocations against one database and one file system.                   *)
(***************************************************************************)
EXTENDS Integers, Sequences, FiniteSets, TLC

\* ------------------------------------------------------------------ bounds
\* Migration versions present in a migrations directory: 1..MaxVersion.
MaxVersion == 2

Versions == 1..MaxVersion

\* ------------------------------------------------------------- vocabulary
None == "<none>"
\* Candidate migration directories.  "migrations" is the conventional
\* directory the fallback search looks for; "custom" is any other path.
Paths == {"custom", "migrations"}
DefaultDir == "migrations"
OptPath == Paths \cup {None}

Backends == {"pg", "sqlite", "mysql"}

MigrationCommands == {"run", "revert", "redo", "list", "pending", "generate"}
DatabaseCommands == {"db_setup", "db_reset", "db_drop"}
Commands == MigrationCommands \cup DatabaseCommands \cup {"setup"}

\* The file named by print_schema.file: absent (Missing), or a sequence of bytes >= 0.
Missing == <<-1>>

\* ---------------------------------------------------------------- helpers
Max(S) == CHOOSE x \in S : \A y \in S : y <= x

RECURSIVE SortedSeq(_)
SortedSeq(S) ==
  IF S = {} THEN <<>>
  ELSE LET m == CHOOSE x \in S : \A y \in S : x <= y
       IN <<m>> \o SortedSeq(S \ {m})

Last(s) == s[Len(s)]

\* ------------------------------------------------------------------ state
VARIABLES
  pc,            \* position of the running invocation; "idle" before the first
  cmd,           \* the subcommand being run
  applied,       \* database: versions recorded as applied
  existing,      \* file system: the paths that exist as directories
  gitkeep,       \* file system: the directories holding a file `.gitkeep`
  schemaParent,  \* file system: the schema file's parent directory exists
  schemaOnDisk,  \* file system: content of the schema file, or Missing
  lookup,        \* migrations_dir's reads of the command line and environment,
                 \* kept until its caller has taken the result
  config,        \* the loaded Config; state "unread" before Config::read
  dir,           \* the directory migrations_dir returned, or None
  redo,          \* redo_latest_migration's locals
  sync,          \* regenerate_schema_if_file_specified's locals
  calls,         \* collaborator calls made by this invocation, in order
  exitStatus,    \* process exit status, -1 while running
  stderr,        \* the error printed by handle_error, or None
  generated,     \* generate: the new <version>_<name> folder: "none", "empty",
                 \* "partial", "sql", "barrel"
  written,       \* the database state and config the schema file was last
                 \* written from by an unlocked sync
  setup,         \* create_migrations_dir's locals
  listed,        \* list: the database as the invocation found it, the
                 \* service's report and the lines printed
  call           \* the library function call under evaluation (FnSpec)

vars == <<pc, cmd, applied, existing, gitkeep, schemaParent, schemaOnDisk,
          lookup, config, dir, redo, sync, calls, exitStatus, stderr, generated,
          written, setup, listed, call>>

NoLookup == [used |-> FALSE, chain |-> <<>>, env |-> None, keeps |-> {},
             cleanup |-> "none"]
Unread == [state |-> "unread", migrations_directory |-> None,
           file |-> FALSE, with_docs |-> FALSE]
NoRedo == [backend |-> None, inTx |-> FALSE, before |-> {}, reverted |-> 0,
           ran |-> 0, revert |-> "none", run |-> "none", committed |-> FALSE]
NoSync == [entered |-> FALSE, locked |-> FALSE, buf |-> Missing,
           old |-> Missing, parent |-> FALSE, result |-> "none"]
NotWritten == [set |-> FALSE, db |-> {}, with_docs |-> FALSE]
NoSetup == [searched |-> FALSE, cwd |-> <<>>, files |-> {}, found |-> FALSE,
            root |-> <<>>, path |-> <<>>, ensured |-> FALSE, existed |-> FALSE,
            keep |-> FALSE]
NoListing == [done |-> FALSE, db |-> {}, report |-> <<>>, printed |-> <<>>]
NoCall == [op |-> "none"]

\* Config values Config::read can load: a parse/IO error, or the fields used here.
Configs ==
  { [state |-> "err", migrations_directory |-> None, file |-> FALSE,
     with_docs |-> FALSE] }
  \cup [state : {"ok"}, migrations_directory : OptPath, file : BOOLEAN,
        with_docs : BOOLEAN]

\* --------------------------------------------------- schema-rendering service
\* renderSchema(connectionString, printSchemaConfig): the rendered bytes are a
\* function of the database structure, which the applied migrations determine,
\* and of the print-schema sub-config.
RenderSchema(db, with_docs) == <<IF with_docs THEN 1 ELSE 0>> \o SortedSeq(db)

\* Contents a schema file can hold when an invocation starts: none, empty,
\* or an earlier rendering.
FileContents ==
  {Missing, <<>>} \cup {RenderSchema(db, d) : db \in SUBSET Versions, d \in BOOLEAN}

\* -------------------------------------------------------------------- Init
Init ==
  /\ pc = "idle"
  /\ cmd = None
  /\ applied \in SUBSET Versions
  /\ existing \in SUBSET Paths
  /\ gitkeep \in SUBSET existing
  /\ schemaParent \in BOOLEAN
  /\ schemaOnDisk \in (IF schemaParent THEN FileContents ELSE {Missing})
  /\ lookup = NoLookup
  /\ config = Unread
  /\ dir = None
  /\ redo = NoRedo
  /\ sync = NoSync
  /\ calls = <<>>
  /\ exitStatus = -1
  /\ stderr = None
  /\ generated = "none"
  /\ written = NotWritten
  /\ setup = NoSetup
  /\ listed = NoListing
  /\ call = NoCall

\* ------------------------------------------------------------ main, exits
\* fn main: one process per command; dispatch on the subcommand.
Main(c) ==
  /\ pc \in {"idle", "exit"}
  /\ cmd' = c
  /\ pc' = CASE c = "setup" -> "create_config"
             [] c = "db_drop" -> "service"
             [] OTHER -> "resolve"
  /\ lookup' = NoLookup
  /\ config' = Unread
  /\ dir' = None
  /\ redo' = NoRedo
  /\ sync' = NoSync
  /\ calls' = <<>>
  /\ exitStatus' = -1
  /\ stderr' = None
  /\ generated' = "none"
  /\ setup' = NoSetup
  /\ listed' = IF c = "list" THEN [NoListing EXCEPT !.db = applied] ELSE NoListing
  /\ UNCHANGED <<call, applied, existing, gitkeep, schemaParent, schemaOnDisk, written>>

\* fn handle_error: print the error, exit(1).  An Err that `?` propagates to
\* main ends the same way, through unwrap_or_else(handle_error).
handle_error(error) ==
  /\ pc' = "exit"
  /\ exitStatus' = 1
  /\ stderr' = error

\* A command handler returned Ok(()): main returns, status 0.
ReturnOk ==
  /\ pc' = "exit"
  /\ exitStatus' = 0
  /\ stderr' = None

\* An unwrap() on an Err: the process panics, status 101.
Panic(error) ==
  /\ pc' = "exit"
  /\ exitStatus' = 101
  /\ stderr' = error

\* ------------------------------------------------------ directory resolution
\* fn migrations_dir_from_cli: `chain` lists the MIGRATION_DIRECTORY value of
\* the ArgMatches it is called on, then of that one's subcommand, and so on
\* inwards.  The value of the level it is called on is taken when present,
\* or else the lookup recurses into the subcommand.
RECURSIVE migrations_dir_from_cli(_)
migrations_dir_from_cli(chain) ==
  IF chain = <<>> THEN None
  ELSE IF Head(chain) # None THEN Head(chain)
  ELSE migrations_dir_from_cli(Tail(chain))

\* The ArgMatches chain a handler passes to migrations_dir: run_setup_command
\* passes the matches of `setup` (no subcommand below it); the migration and
\* database handlers pass the matches of `migration` / `database`, whose
\* subcommand is the command being run.
ChainLen(c) == IF c = "setup" THEN 1 ELSE 2

Chains(c) == [1..ChainLen(c) -> OptPath]

\* Mutant of configured_dir: the environment is asked before the command line.
configured_dir_env_first(cli, env, cfg_dir) ==
  IF env # None THEN env
  ELSE IF cli # None THEN cli
  ELSE cfg_dir

\* fn migrations_dir, lines 194-203: the three configured tiers, in order.
\* `cfg_dir` is only evaluated (Config::read) when the first two are absent.
configured_dir(cli, env, cfg_dir) ==
  IF cli # None THEN cli
  ELSE IF env # None THEN env
  ELSE cfg_dir

\* migrations::find_migrations_directory: the upward search of the
\* migration-execution service finds the conventional directory when it
\* exists as a directory, and fails with MigrationDirectoryNotFound otherwise.
find_migrations_directory(dirs) ==
  IF DefaultDir \in dirs THEN [ok |-> TRUE, path |-> DefaultDir]
  ELSE [ok |-> FALSE, path |-> None]

\* Mutant of migrations_dir_result: a configured directory is returned only
\* when it exists as a directory.
migrations_dir_result_checked(configured, dirs) ==
  IF configured # None
  THEN (IF configured \in dirs THEN [ok |-> TRUE, path |-> configured]
        ELSE [ok |-> FALSE, path |-> None])
  ELSE (IF DefaultDir \in dirs THEN [ok |-> TRUE, path |-> DefaultDir]
        ELSE [ok |-> FALSE, path |-> None])

\* fn migrations_dir, lines 205-227: a configured directory is returned as it
\* is; only without one the fallback search decides.
migrations_dir_result(configured, dirs) ==
  IF configured # None THEN [ok |-> TRUE, path |-> configured]
  ELSE find_migrations_directory(dirs)

\* Mutant of gitkeep_after: the cleanup also runs on the directory the
\* fallback search would find.
gitkeep_after_any_tier(configured, dirs, keeps, readable, removable) ==
  LET d == IF configured # None THEN configured ELSE DefaultDir
  IN IF d \in dirs /\ readable /\ d \in keeps /\ removable
     THEN keeps \ {d}
     ELSE keeps

\* fn migrations_dir, lines 210-223: the legacy cleanup of a configured
\* directory.  `readable` is whether fs::read_dir succeeds, `removable`
\* whether fs::remove_file does (a failure only prints a warning).
gitkeep_after(configured, dirs, keeps, readable, removable) ==
  IF /\ configured # None
     /\ configured \in dirs
     /\ readable
     /\ configured \in keeps
     /\ removable
  THEN keeps \ {configured}
  ELSE keeps

\* fn migrations_dir, lines 210-223: how the cleanup went.  "unreadable":
\* fs::read_dir returned Err (also for a path that is no directory);
\* "absent": no regular file `.gitkeep` among the entries; "removed";
\* "warned": fs::remove_file failed and the warning was printed.
cleanup_outcome(configured, dirs, keeps, readable, removable) ==
  IF configured = None THEN "none"
  ELSE IF configured \notin dirs \/ ~readable THEN "unreadable"
  ELSE IF configured \notin keeps THEN "absent"
  ELSE IF removable THEN "removed"
  ELSE "warned"

\* fn migrations_dir.  The command line and the environment are read first;
\* Config::read runs only when neither names a directory, and its failure
\* ends the process.  While the entries of a readable directory are searched,
\* file_type().unwrap() (line 214) panics when an entry's type cannot be
\* read (`typed` is FALSE).  The result is left in `dir` (None for Err) for
\* the caller.
MigrationsDir ==
  /\ pc = "resolve"
  /\ calls' = Append(calls, "migrations_dir")
  /\ \E chain \in Chains(cmd), env \in OptPath :
       LET cli == migrations_dir_from_cli(chain)
           reads_config == cli = None /\ env = None
       IN \E cfg \in (IF reads_config THEN Configs ELSE {config}) :
            LET configured == configured_dir(cli, env, cfg.migrations_directory)
                res == migrations_dir_result(configured, existing)
                inDir == configured \in existing
                cleans == configured \in existing \cap gitkeep
            IN /\ config' = cfg
               /\ IF cfg.state = "err"
                  THEN /\ lookup' = [NoLookup EXCEPT !.used = TRUE, !.chain = chain,
                                                     !.env = env, !.keeps = gitkeep]
                       /\ handle_error("ConfigError")
                       /\ UNCHANGED <<dir, gitkeep>>
                  ELSE \E readable \in (IF inDir THEN BOOLEAN ELSE {TRUE}),
                          typed \in (IF inDir THEN BOOLEAN ELSE {TRUE}),
                          removable \in (IF cleans THEN BOOLEAN ELSE {TRUE}) :
                         IF inDir /\ readable /\ ~typed
                         THEN /\ removable
                              /\ lookup' = [used |-> TRUE, chain |-> chain,
                                            env |-> env, keeps |-> gitkeep,
                                            cleanup |-> "panicked"]
                              /\ Panic("IoError")
                              /\ UNCHANGED <<dir, gitkeep>>
                         ELSE /\ ~readable => (typed /\ removable)
                              /\ lookup' = [used |-> TRUE, chain |-> chain,
                                            env |-> env, keeps |-> gitkeep,
                                            cleanup |-> cleanup_outcome(
                                              configured, existing, gitkeep,
                                              readable, removable)]
                              /\ gitkeep' = gitkeep_after(configured, existing,
                                                          gitkeep, readable, removable)
                              /\ dir' = IF res.ok THEN res.path ELSE None
                              /\ pc' = "resolved"
                              /\ UNCHANGED <<exitStatus, stderr>>
  /\ UNCHANGED <<listed, setup, call, cmd, applied, existing, schemaParent, schemaOnDisk, redo,
                 sync, generated, written>>

\* What the caller does with migrations_dir's result: every handler unwraps
\* it with handle_error (lines 66, 75, 84, 90, 110, 122, 268, 272), but
\* create_migrations_dir (lines 240-245), which turns to the project root.
TakeDir ==
  /\ pc = "resolved"
  /\ lookup' = NoLookup
  /\ IF dir # None
     THEN /\ pc' = IF cmd = "setup" THEN "ensure_dir" ELSE "service"
          /\ UNCHANGED <<exitStatus, stderr>>
     ELSE IF cmd = "setup"
     THEN /\ pc' = "find_root"
          /\ UNCHANGED <<exitStatus, stderr>>
     ELSE handle_error("MigrationDirectoryNotFound")
  /\ UNCHANGED <<listed, setup, call, cmd, applied, existing, gitkeep, schemaParent, schemaOnDisk,
                 config, dir, redo, sync, calls, generated, written>>

\* ------------------------------------------------------------- setup flow
\* fn create_config_file: writes the default diesel.toml when none exists;
\* run_setup_command unwraps an IO error with handle_error.
CreateConfigFile ==
  /\ pc = "create_config"
  /\ calls' = Append(calls, "create_config_file")
  /\ \E ok \in BOOLEAN :
       IF ok THEN pc' = "resolve" /\ UNCHANGED <<exitStatus, stderr>>
       ELSE handle_error("IoError")
  /\ UNCHANGED <<listed, setup, call, cmd, applied, existing, gitkeep, schemaParent, schemaOnDisk,
                 lookup, config, dir, redo, sync, generated, written>>

\* ------------------------------------------------------------------ paths
\* A path is the sequence of its components (std::path::Components): the
\* root directory first when the path is absolute, then one name each.
RootDir == "/"
ParentDir == ".."

\* Path::is_absolute.
is_absolute(path) == path # <<>> /\ Head(path) = RootDir

\* Path::parent: None for the empty path and for the root directory, or
\* else the path without its last component.
has_parent(path) == path # <<>> /\ path # <<RootDir>>

parent(path) == SubSeq(path, 1, Len(path) - 1)

\* Path::starts_with: `base` is a prefix of `path` in whole components; the
\* empty path is a prefix of every path.
starts_with(path, base) ==
  Len(base) <= Len(path) /\ SubSeq(path, 1, Len(base)) = base

\* Path::strip_prefix on a path that starts with `base`.
strip_prefix(path, base) == SubSeq(path, Len(base) + 1, Len(path))

\* Path::join, PathBuf::push: an absolute `other` replaces `path`.
join(path, other) == IF is_absolute(other) THEN other ELSE path \o other

\* The directories an upward walk from `path` visits: path and its parents.
RECURSIVE Ancestors(_)
Ancestors(path) ==
  {path} \cup (IF has_parent(path) THEN Ancestors(parent(path)) ELSE {})

\* Mutant of search_for_directory_containing_file: only `path` itself is
\* looked at, never a parent.
search_without_parents(path, file, files) ==
  [ok |-> join(path, <<file>>) \in files, path |-> path]

\* Mutant of search_for_directory_containing_file: the error of the topmost
\* directory visited is passed down unchanged.
RECURSIVE search_without_map_err(_, _, _)
search_without_map_err(path, file, files) ==
  IF join(path, <<file>>) \in files
  THEN [ok |-> TRUE, path |-> path]
  ELSE IF has_parent(path)
  THEN search_without_map_err(parent(path), file, files)
  ELSE [ok |-> FALSE, path |-> path]

\* fn search_for_directory_containing_file.  `files` is the set of paths that
\* are regular files (Path::is_file).  Ok carries the directory found, Err is
\* ProjectRootNotFound carrying `path`: each level's map_err replaces the
\* error of the level above it with its own path.
RECURSIVE search_for_directory_containing_file(_, _, _)
search_for_directory_containing_file(path, file, files) ==
  LET toml_path == join(path, <<file>>)
  IN IF toml_path \in files
     THEN [ok |-> TRUE, path |-> path]
     ELSE IF has_parent(path)
     THEN LET r == search_for_directory_containing_file(parent(path), file, files)
          IN IF r.ok THEN r ELSE [ok |-> FALSE, path |-> path]
     ELSE [ok |-> FALSE, path |-> path]

\* The manifest marker files fn find_project_root searches for, in order.
Markers == <<"diesel.toml", "Cargo.toml">>

\* fn find_project_root, lines 309-310: the whole upward search for
\* diesel.toml comes first, the one for Cargo.toml only when it fails.
find_project_root(current_dir, files) ==
  LET r == search_for_directory_containing_file(current_dir, Markers[1], files)
  IN IF r.ok THEN r
     ELSE search_for_directory_containing_file(current_dir, Markers[2], files)

\* The working directories `diesel setup` is run from, and the marker files
\* that can exist in them and above them.
DeepestCwd == <<RootDir, "a", "b">>

Cwds == Ancestors(DeepestCwd)

MarkerPaths(cwd) ==
  {join(d, <<Markers[i]>>) : d \in Ancestors(cwd), i \in DOMAIN Markers}

\* fn create_migrations_dir, lines 242-244, with fn find_project_root: the
\* directory is <project-root>/migrations, or the process ends with
\* ProjectRootNotFound.  env::current_dir() can fail with an IO error.
FindProjectRoot ==
  /\ pc = "find_root"
  /\ calls' = Append(calls, "find_project_root")
  /\ \/ /\ setup' = setup
        /\ dir' = dir
        /\ handle_error("IoError")
     \/ \E cwd \in Cwds :
          \E files \in SUBSET MarkerPaths(cwd) :
            LET r == find_project_root(cwd, files)
            IN /\ setup' = [setup EXCEPT !.searched = TRUE, !.cwd = cwd,
                                         !.files = files, !.found = r.ok,
                                         !.root = r.path,
                                         !.path = join(r.path, <<DefaultDir>>)]
               /\ IF r.ok
                  THEN /\ dir' = DefaultDir
                       /\ pc' = "ensure_dir"
                       /\ UNCHANGED <<exitStatus, stderr>>
                  ELSE /\ dir' = dir
                       /\ handle_error("ProjectRootNotFound")
  /\ UNCHANGED <<listed, call, cmd, applied, existing, gitkeep, schemaParent, schemaOnDisk,
                 lookup, config, redo, sync, generated, written>>

\* fn create_migrations_dir, lines 247-251, with fn create_migrations_directory:
\* fs::create_dir, then File::create of `.keep` inside; either can fail.  The
\* locals of the search are dropped on return.
EnsureDir ==
  /\ pc = "ensure_dir"
  /\ IF dir \notin existing
     THEN /\ calls' = Append(calls, "create_migrations_directory")
          /\ \E outcome \in {"ok", "create_dir_failed", "keep_failed"} :
               /\ existing' = IF outcome = "create_dir_failed" THEN existing
                              ELSE existing \cup {dir}
               /\ setup' = [NoSetup EXCEPT !.ensured = TRUE,
                                           !.keep = (outcome = "ok")]
               /\ IF outcome = "ok"
                  THEN pc' = "service" /\ UNCHANGED <<exitStatus, stderr>>
                  ELSE handle_error("IoError")
     ELSE /\ setup' = [NoSetup EXCEPT !.ensured = TRUE, !.existed = TRUE]
          /\ pc' = "service"
          /\ UNCHANGED <<calls, existing, exitStatus, stderr>>
  /\ UNCHANGED <<listed, call, cmd, applied, gitkeep, schemaParent, schemaOnDisk, lookup,
                 config, dir, redo, sync, generated, written>>

\* ------------------------------------------- migration-execution service
\* The migrations a directory holds and the database has not applied.
Pending(db) == Versions \ db

\* applyPending(dir): applies the pending migrations in ascending version
\* order, each in its own transaction; a failure keeps the ones before it.
RunPendingOutcomes(db, dirOk) ==
  IF ~dirOk THEN {[ok |-> FALSE, db |-> db]}
  ELSE {[ok |-> TRUE, db |-> db \cup Versions]}
       \cup {[ok |-> FALSE, db |-> db \cup {v \in Pending(db) : v < f}] :
               f \in Pending(db)}
       \cup {[ok |-> FALSE, db |-> db]}

\* revertLatest(dir): reverts the applied migration with the greatest version
\* and returns that version; fails when none is applied, when the directory
\* cannot be read, or when the migration's down step fails.
RevertLatestOutcomes(db, dirOk) ==
  {[ok |-> FALSE, db |-> db, version |-> 0]}
  \cup (IF dirOk /\ db # {}
        THEN {[ok |-> TRUE, db |-> db \ {Max(db)}, version |-> Max(db)]}
        ELSE {})

\* applyByVersion(dir, version): applies the migration of the directory with
\* that version; it fails when there is none or when it is applied already.
RunWithVersionOutcomes(db, dirOk, version) ==
  {[ok |-> FALSE, db |-> db]}
  \cup (IF dirOk /\ version \in Versions \ db
        THEN {[ok |-> TRUE, db |-> db \cup {version}]}
        ELSE {})

\* fn run_migration_command, ("run", _), lines 64-70.
RunPending ==
  /\ pc = "service" /\ cmd = "run"
  /\ calls' = Append(calls, "run_pending_migrations")
  /\ \E o \in RunPendingOutcomes(applied, dir \in existing) :
       /\ applied' = o.db
       /\ IF o.ok THEN pc' = "sync" /\ UNCHANGED <<exitStatus, stderr>>
          ELSE handle_error("MigrationError")
  /\ UNCHANGED <<listed, setup, call, cmd, existing, gitkeep, schemaParent, schemaOnDisk, lookup,
                 config, dir, redo, sync, generated, written>>

\* fn run_migration_command, ("revert", _), lines 73-79.
RevertLatest ==
  /\ pc = "service" /\ cmd = "revert"
  /\ calls' = Append(calls, "revert_latest_migration")
  /\ \E o \in RevertLatestOutcomes(applied, dir \in existing) :
       /\ applied' = o.db
       /\ IF o.ok THEN pc' = "sync" /\ UNCHANGED <<exitStatus, stderr>>
          ELSE handle_error("MigrationError")
  /\ UNCHANGED <<listed, setup, call, cmd, existing, gitkeep, schemaParent, schemaOnDisk, lookup,
                 config, dir, redo, sync, generated, written>>

\* A text is the sequence of its characters.
DigitChars == <<"0", "1", "2", "3", "4", "5", "6", "7", "8", "9">>

RECURSIVE Decimal(_)
Decimal(n) ==
  IF n < 10 THEN <<DigitChars[n + 1]>>
  ELSE Decimal(n \div 10) \o <<DigitChars[(n % 10) + 1]>>

\* The version string of the migration the execution service ranks v-th.
\* The service orders migrations by their version strings compared as
\* strings, so the texts ascend in that order: "10", "2", "3", ...
version_text(v) == IF v = 1 THEN <<"1", "0">> ELSE Decimal(v)

\* The code point of a character, up to order.
char_code(c) == CHOOSE i \in DOMAIN DigitChars : DigitChars[i] = c

\* The number a text of digits denotes.
RECURSIVE text_value(_)
text_value(text) ==
  IF text = <<>> THEN 0
  ELSE 10 * text_value(SubSeq(text, 1, Len(text) - 1))
       + (char_code(text[Len(text)]) - 1)

\* Mutant of string_lt: the versions are compared as numbers.
numeric_lt(a, b) == text_value(a) < text_value(b)

\* Ord for String (the key of sort_by_key, line 94): character by character
\* from the left; a proper prefix comes first.
RECURSIVE string_lt(_, _)
string_lt(a, b) ==
  IF b = <<>> THEN FALSE
  ELSE IF a = <<>> THEN TRUE
  ELSE IF a[1] # b[1] THEN char_code(a[1]) < char_code(b[1])
  ELSE string_lt(Tail(a), Tail(b))

\* Insertion of one entry into a sorted list, after the entries whose key is
\* not greater (the sort is stable).
RECURSIVE insert_by_key(_, _)
insert_by_key(sorted, m) ==
  IF sorted = <<>> THEN <<m>>
  ELSE IF string_lt(version_text(m.version), version_text(sorted[1].version))
  THEN <<m>> \o sorted
  ELSE <<sorted[1]>> \o insert_by_key(Tail(sorted), m)

\* migrations.sort_by_key(|&(ref m, _)| m.version().to_string()), line 94.
RECURSIVE sort_by_key(_)
sort_by_key(migrations) ==
  IF migrations = <<>> THEN <<>>
  ELSE insert_by_key(sort_by_key(SubSeq(migrations, 1, Len(migrations) - 1)),
                     migrations[Len(migrations)])

\* listMarked(dir): every migration of the directory, in the order the
\* service chooses, each with whether the database records it as applied.
mark_migrations_in_directory(db) ==
  {[i \in 1..MaxVersion |-> [version |-> order[i], applied |-> order[i] \in db]] :
     order \in {f \in [1..MaxVersion -> Versions] :
                  \A i, j \in 1..MaxVersion : f[i] = f[j] => i = j}}

\* migration.file_path().unwrap().file_name(), lines 98-103: the folder of a
\* migration is named <version>_<name>.
file_name(v) == version_text(v) \o <<"_", "m">>

\* Lines 97-106: one line `  [x] name` per entry, in the order of the list.
println_migrations(migrations) ==
  [i \in 1..Len(migrations) |->
     [x |-> IF migrations[i].applied THEN "X" ELSE " ",
      name |-> file_name(migrations[i].version)]]

\* fn run_migration_command, ("list", _), lines 88-107: the service marks the
\* migrations of the directory, the list is sorted and printed.
ListMigrations ==
  /\ pc = "service" /\ cmd = "list"
  /\ calls' = Append(calls, "mark_migrations")
  /\ \/ /\ dir \in existing
        /\ \E report \in mark_migrations_in_directory(applied) :
             listed' = [listed EXCEPT
                          !.done = TRUE, !.report = report,
                          !.printed = println_migrations(sort_by_key(report))]
        /\ ReturnOk
     \/ /\ listed' = listed
        /\ handle_error("MigrationError")
  /\ UNCHANGED <<setup, call, cmd, applied, existing, gitkeep, schemaParent, schemaOnDisk,
                 lookup, config, dir, redo, sync, generated, written>>

\* fn run_migration_command, ("pending", _), lines 108-116.
AnyPending ==
  /\ pc = "service" /\ cmd = "pending"
  /\ calls' = Append(calls, "any_pending_migrations")
  /\ \E ok \in {dir \in existing, FALSE} :
       IF ok THEN ReturnOk ELSE handle_error("MigrationError")
  /\ UNCHANGED <<listed, setup, call, cmd, applied, existing, gitkeep, schemaParent, schemaOnDisk,
                 lookup, config, dir, redo, sync, generated, written>>


\* Mutant of create_dir: the folder is not created at this point.
create_dir_deferred(folder) == folder

\* fs::create_dir(&migration_dir), line 124, when it succeeds: the folder
\* exists and is empty.
create_dir(folder) == "empty"

\* The values of MIGRATION_FORMAT: the two formats the code names, and any
\* other text.
Formats == {"sql", "barrel", "other"}

\* The match on MIGRATION_FORMAT, lines 126-132: the generator run for the
\* format, "none" for an unrecognized one.  The `barrel` arm is compiled
\* only with the feature barrel-migrations.
generator_for(format, barrel_migrations) ==
  CASE format = "sql" -> "generate_sql_migration"
    [] format = "barrel" /\ barrel_migrations -> "generate_initial"
    [] OTHER -> "none"

\* fn run_migration_command, ("generate", _), lines 117-124: the versioned
\* folder is created inside the resolved directory; fs::create_dir(..).unwrap()
\* panics when the parent is missing or the folder already exists.
GenerateCreateDir ==
  /\ pc = "service" /\ cmd = "generate"
  /\ calls' = Append(calls, "create_dir")
  /\ \E collides \in BOOLEAN :
       IF dir \in existing /\ ~collides
       THEN /\ generated' = create_dir(generated)
            /\ pc' = "gen_format"
            /\ UNCHANGED <<exitStatus, stderr>>
       ELSE /\ generated' = generated
            /\ Panic("IoError")
  /\ UNCHANGED <<listed, setup, call, cmd, applied, existing, gitkeep, schemaParent,
                 schemaOnDisk, lookup, config, dir, redo, sync, written>>

\* fn run_migration_command, ("generate", _), lines 126-132, with
\* fn generate_sql_migration, whose File::create(..).unwrap() and
\* write_all(..).unwrap() can panic before the first file is created
\* ("empty") or after it ("partial").  What the barrel generator writes is
\* its own business ("barrel").
GenerateFormat ==
  /\ pc = "gen_format"
  /\ \E format \in Formats, barrel_migrations \in BOOLEAN :
       LET generator == generator_for(format, barrel_migrations)
       IN CASE generator = "generate_sql_migration" ->
                 /\ calls' = Append(calls, generator)
                 /\ \/ generated' = "sql" /\ ReturnOk
                    \/ /\ generated' \in {generated, "partial"}
                       /\ Panic("IoError")
            [] generator = "generate_initial" ->
                 /\ calls' = Append(calls, generator)
                 /\ generated' = "barrel"
                 /\ ReturnOk
            [] OTHER ->
                 /\ calls' = calls
                 /\ generated' = generated
                 /\ handle_error("UnrecognizedMigrationFormat")
  /\ UNCHANGED <<listed, setup, call, cmd, applied, existing, gitkeep, schemaParent,
                 schemaOnDisk, lookup, config, dir, redo, sync, written>>

\* ------------------------------------------------- database-setup service
\* setupDatabase(args, migrationsDir): creates the database when needed and,
\* when it had to create the migrations table and the directory exists, runs
\* the pending migrations.
SetupDatabaseOutcomes(db, dirOk) ==
  {[ok |-> TRUE, db |-> db], [ok |-> FALSE, db |-> db]}
  \cup (IF dirOk THEN {[ok |-> TRUE, db |-> db \cup Versions]} ELSE {})

\* resetDatabase(args, migrationsDir): drops the database and sets it up again.
ResetDatabaseOutcomes(db, dirOk) ==
  {[ok |-> FALSE, db |-> db], [ok |-> FALSE, db |-> {}]}
  \cup (IF dirOk THEN {[ok |-> TRUE, db |-> Versions]} ELSE {[ok |-> TRUE, db |-> {}]})

\* fn run_setup_command, line 234, and fn run_database_command,
\* ("setup", _), lines 267-270: the handler returns after setup_database.
SetupDatabase ==
  /\ pc = "service" /\ cmd \in {"setup", "db_setup"}
  /\ calls' = Append(calls, "setup_database")
  /\ \E o \in SetupDatabaseOutcomes(applied, dir \in existing) :
       /\ applied' = o.db
       /\ IF o.ok THEN ReturnOk ELSE handle_error("DatabaseError")
  /\ UNCHANGED <<listed, setup, call, cmd, existing, gitkeep, schemaParent, schemaOnDisk, lookup,
                 config, dir, redo, sync, generated, written>>

\* fn run_database_command, ("reset", _), lines 271-275.
ResetDatabase ==
  /\ pc = "service" /\ cmd = "db_reset"
  /\ calls' = Append(calls, "reset_database")
  /\ \E o \in ResetDatabaseOutcomes(applied, dir \in existing) :
       /\ applied' = o.db
       /\ IF o.ok THEN pc' = "sync" /\ UNCHANGED <<exitStatus, stderr>>
          ELSE handle_error("DatabaseError")
  /\ UNCHANGED <<listed, setup, call, cmd, existing, gitkeep, schemaParent, schemaOnDisk, lookup,
                 config, dir, redo, sync, generated, written>>

\* fn run_database_command, ("drop", _), line 276.
DropDatabase ==
  /\ pc = "service" /\ cmd = "db_drop"
  /\ calls' = Append(calls, "drop_database")
  /\ \E ok \in BOOLEAN :
       IF ok THEN applied' = {} /\ ReturnOk
       ELSE applied' = applied /\ handle_error("DatabaseError")
  /\ UNCHANGED <<listed, setup, call, cmd, existing, gitkeep, schemaParent, schemaOnDisk, lookup,
                 config, dir, redo, sync, generated, written>>

\* -------------------------------------------------------------------- redo
\* Mutants of should_redo_migration_in_transaction: the transaction dropped for
\* every backend, and the MySQL exception lost.
never_in_transaction(t) == FALSE

always_in_transaction(t) == TRUE

\* fn should_redo_migration_in_transaction: with the mysql feature, false for
\* a MysqlConnection and true for every other connection; without the feature
\* (no MysqlConnection exists) always true.
should_redo_migration_in_transaction(t) == t # "mysql"

\* Mutant of redo_run_version: the latest version still applied after the
\* revert is run again instead of the reverted one.
redo_latest_applied_version(reverted_version) ==
  IF applied # {} THEN Max(applied) ELSE reverted_version

\* fn redo_latest_migration, lines 336-341: the version handed to
\* run_migration_with_version.
redo_run_version(reverted_version) == reverted_version

\* Connection::transaction(f): commits when f returns Ok and rolls back to
\* the state at its start when f returns Err.  Outside a transaction every
\* completed call stays in effect.
after_failure(r, db) == IF r.inTx THEN r.before ELSE db

\* fn run_migration_command, ("redo", _), line 85, entering
\* fn redo_latest_migration, line 343: the connection is established and the
\* transaction, if any, is opened.
RedoBegin ==
  /\ pc = "service" /\ cmd = "redo"
  /\ calls' = Append(calls, "redo_latest_migration")
  /\ \E b \in Backends, connected \in BOOLEAN :
       IF connected
       THEN /\ redo' = [redo EXCEPT !.backend = b,
                                    !.inTx = should_redo_migration_in_transaction(b),
                                    !.before = applied]
            /\ pc' = "redo_revert"
            /\ UNCHANGED <<exitStatus, stderr>>
       ELSE /\ redo' = redo
            /\ handle_error("ConnectionError")
  /\ UNCHANGED <<listed, setup, call, cmd, applied, existing, gitkeep, schemaParent, schemaOnDisk,
                 lookup, config, dir, sync, generated, written>>

\* Mutant of closure_continues: the closure goes on after a failed revert.
closure_ignores_error(revert_ok) == TRUE

\* fn redo_latest_migration, line 335: the `?` after
\* revert_latest_migration_in_directory; the closure reaches line 336 only
\* on Ok.
closure_continues(revert_ok) == revert_ok

\* fn redo_latest_migration, lines 334-335: revert-latest; `?` ends the
\* closure on Err, and lines 344-347 unwrap that with handle_error.
RedoRevert ==
  /\ pc = "redo_revert"
  /\ calls' = Append(calls, "revert_latest_migration")
  /\ \E o \in RevertLatestOutcomes(applied, dir \in existing) :
       IF closure_continues(o.ok)
       THEN /\ applied' = o.db
            /\ redo' = [redo EXCEPT !.reverted = o.version,
                                    !.revert = IF o.ok THEN "ok" ELSE "err"]
            /\ pc' = "redo_run"
            /\ UNCHANGED <<exitStatus, stderr>>
       ELSE /\ applied' = after_failure(redo, o.db)
            /\ redo' = [redo EXCEPT !.revert = "err"]
            /\ handle_error("MigrationError")
  /\ UNCHANGED <<listed, setup, call, cmd, existing, gitkeep, schemaParent, schemaOnDisk, lookup,
                 config, dir, sync, generated, written>>

\* fn redo_latest_migration, lines 336-348: apply-by-version, then the end
\* of the closure: commit on Ok, rollback and handle_error on Err.
RedoRun ==
  /\ pc = "redo_run"
  /\ calls' = Append(calls, "run_migration_with_version")
  /\ LET version == redo_run_version(redo.reverted)
     IN \E o \in RunWithVersionOutcomes(applied, dir \in existing, version) :
          IF o.ok
          THEN /\ applied' = o.db
               /\ redo' = [redo EXCEPT !.ran = version, !.run = "ok",
                                       !.committed = redo.inTx]
               /\ pc' = "sync"
               /\ UNCHANGED <<exitStatus, stderr>>
          ELSE /\ applied' = after_failure(redo, o.db)
               /\ redo' = [redo EXCEPT !.ran = version, !.run = "err"]
               /\ handle_error("MigrationError")
  /\ UNCHANGED <<listed, setup, call, cmd, existing, gitkeep, schemaParent, schemaOnDisk, lookup,
                 config, dir, sync, generated, written>>


\* ------------------------------------------------------- schema-sync guard
\* print_schema::run_print_schema(&database_url, &config.print_schema, &mut buf)
\* and print_schema::output_schema(&database_url, &config.print_schema): both
\* are the schema-rendering service.
run_print_schema(db, print_schema) == RenderSchema(db, print_schema)

output_schema(db, print_schema) == RenderSchema(db, print_schema)

\* Mutant of locked_buf: the locked path renders with the default
\* print-schema config instead of the loaded one.
locked_buf_default_config(db, cfg) == run_print_schema(db, FALSE)

\* fn regenerate_schema_if_file_specified, line 450: what the locked path
\* renders for the comparison.
locked_buf(db, cfg) == run_print_schema(db, cfg.with_docs)

\* fn regenerate_schema_if_file_specified, line 468: what the unlocked path
\* renders for the file.
unlocked_schema(db, cfg) == output_schema(db, cfg.with_docs)

\* Mutant of sync_branch: the locked flag is ignored.
sync_branch_unlocked(locked) == "sync_unlocked"

\* fn regenerate_schema_if_file_specified, line 448: the branch taken.
sync_branch(locked) == IF locked THEN "sync_locked" ELSE "sync_unlocked"

\* fn regenerate_schema_if_file_specified, lines 456-463.
locked_result(buf, old_buf) == IF buf # old_buf THEN "SchemaOutOfSync" ELSE "ok"

\* Mutant of file_create: the file is left as it is until the write.
file_untouched(old) == old

\* Mutant of file_create: the file is opened without truncation.
file_open_keep(old) == IF old = Missing THEN <<>> ELSE old

\* fs::File::create, line 467: the file is created, or truncated when it exists.
file_create(old) == <<>>

\* file.write_all, line 469: the bytes follow what the file holds.
write_all(content, bytes) == content \o bytes

\* Mutant of schema_file_specified: the guard goes on without a file name.
schema_file_assumed(cfg) == TRUE

\* fn regenerate_schema_if_file_specified, line 441:
\* `if let Some(ref path) = config.print_schema.file`.
schema_file_specified(cfg) == cfg.file

\* fn regenerate_schema_if_file_specified, lines 440-441: Config::read (the
\* config loaded earlier in this invocation is read again from the same
\* file), and the no-op when print_schema.file is unset.  `locked` is the
\* --locked-schema flag of the invocation; the file system as the guard
\* found it is kept in `sync`.
SyncReadConfig ==
  /\ pc = "sync"
  /\ calls' = Append(calls, "regenerate_schema")
  /\ \E cfg \in Configs, locked \in BOOLEAN :
       LET found == [sync EXCEPT !.locked = locked, !.old = schemaOnDisk,
                                 !.parent = schemaParent]
       IN /\ config.state # "unread" => cfg = config
          /\ config' = cfg
          /\ IF cfg.state = "err"
             THEN sync' = found /\ handle_error("ConfigError")
             ELSE IF ~schema_file_specified(cfg)
             THEN sync' = found /\ ReturnOk
             ELSE /\ sync' = [found EXCEPT !.entered = TRUE]
                  /\ pc' = "sync_dirs"
                  /\ UNCHANGED <<exitStatus, stderr>>
  /\ UNCHANGED <<listed, setup, call, cmd, applied, existing, gitkeep, schemaParent, schemaOnDisk,
                 lookup, dir, redo, generated, written>>

\* fn regenerate_schema_if_file_specified, lines 442-448: the parent
\* directories are created, then the mode is read from the arguments.
SyncCreateDirs ==
  /\ pc = "sync_dirs"
  /\ sync' = sync
  /\ \E ok \in {TRUE, schemaParent} :
       IF ok
       THEN /\ schemaParent' = TRUE
            /\ pc' = sync_branch(sync.locked)
            /\ UNCHANGED <<exitStatus, stderr>>
       ELSE /\ schemaParent' = schemaParent
            /\ handle_error("IoError")
  /\ UNCHANGED <<listed, setup, call, cmd, applied, existing, gitkeep, schemaOnDisk, lookup, config,
                 dir, redo, calls, generated, written>>

\* fn regenerate_schema_if_file_specified, lines 449-450.
SyncLockedRender ==
  /\ pc = "sync_locked"
  /\ \E ok \in BOOLEAN :
       IF ok
       THEN /\ sync' = [sync EXCEPT !.buf = locked_buf(applied, config)]
            /\ pc' = "sync_compare"
            /\ UNCHANGED <<exitStatus, stderr>>
       ELSE /\ sync' = [sync EXCEPT !.result = "RenderError"]
            /\ handle_error("RenderError")
  /\ UNCHANGED <<listed, setup, call, cmd, applied, existing, gitkeep, schemaParent, schemaOnDisk,
                 lookup, config, dir, redo, calls, generated, written>>

\* fn regenerate_schema_if_file_specified, lines 452-463: the file is opened
\* for reading (an Err when it is missing), read and compared.
SyncLockedCompare ==
  /\ pc = "sync_compare"
  /\ IF schemaOnDisk = Missing
     THEN /\ sync' = [sync EXCEPT !.result = "IoError"]
          /\ handle_error("IoError")
     ELSE LET result == locked_result(sync.buf, schemaOnDisk)
          IN /\ sync' = [sync EXCEPT !.result = result]
             /\ IF result = "ok" THEN ReturnOk ELSE handle_error(result)
  /\ UNCHANGED <<listed, setup, call, cmd, applied, existing, gitkeep, schemaParent, schemaOnDisk,
                 lookup, config, dir, redo, calls, generated, written>>

\* fn regenerate_schema_if_file_specified, line 467.
SyncCreateFile ==
  /\ pc = "sync_unlocked"
  /\ \E ok \in BOOLEAN :
       IF ok
       THEN /\ schemaOnDisk' = file_create(schemaOnDisk)
            /\ written' = NotWritten
            /\ sync' = sync
            /\ pc' = "sync_write"
            /\ UNCHANGED <<exitStatus, stderr>>
       ELSE /\ UNCHANGED <<schemaOnDisk, written>>
            /\ sync' = [sync EXCEPT !.result = "IoError"]
            /\ handle_error("IoError")
  /\ UNCHANGED <<listed, setup, call, cmd, applied, existing, gitkeep, schemaParent, lookup, config,
                 dir, redo, calls, generated>>

\* fn regenerate_schema_if_file_specified, lines 468-469.
SyncWrite ==
  /\ pc = "sync_write"
  /\ \E ok \in BOOLEAN :
       IF ok
       THEN /\ sync' = [sync EXCEPT !.buf = unlocked_schema(applied, config),
                                    !.result = "ok"]
            /\ schemaOnDisk' = write_all(schemaOnDisk, unlocked_schema(applied, config))
            /\ written' = [set |-> TRUE, db |-> applied,
                           with_docs |-> config.with_docs]
            /\ ReturnOk
       ELSE /\ sync' = [sync EXCEPT !.result = "RenderError"]
            /\ UNCHANGED <<schemaOnDisk, written>>
            /\ handle_error("RenderError")
  /\ UNCHANGED <<listed, setup, call, cmd, applied, existing, gitkeep, schemaParent, lookup, config,
                 dir, redo, calls, generated>>

\* ----------------------------------------------------------- specification
Next ==
  \/ \E c \in Commands : Main(c)
  \/ CreateConfigFile
  \/ MigrationsDir
  \/ TakeDir
  \/ FindProjectRoot
  \/ EnsureDir
  \/ RunPending
  \/ RevertLatest
  \/ RedoBegin
  \/ RedoRevert
  \/ RedoRun
  \/ ListMigrations
  \/ AnyPending
  \/ GenerateCreateDir
  \/ GenerateFormat
  \/ SetupDatabase
  \/ ResetDatabase
  \/ DropDatabase
  \/ SyncReadConfig
  \/ SyncCreateDirs
  \/ SyncLockedRender
  \/ SyncLockedCompare
  \/ SyncCreateFile
  \/ SyncWrite

Spec == Init /\ [][Next]_vars


\* ================================================================== claims
Called(op) == \E i \in DOMAIN calls : calls[i] = op

RedoFailedAtRun ==
  /\ pc = "exit" /\ cmd = "redo"
  /\ redo.revert = "ok" /\ redo.run = "err"

\* C1: on a backend other than MySQL, when redo's revert-latest succeeds and
\* apply-by-version fails, the transaction is rolled back and never
\* committed: the applied migrations are those from before redo, and the
\* error is reported with exit status 1.
C1_RedoRollsBackOnTransactionalBackend ==
  (RedoFailedAtRun /\ redo.backend # "mysql")
    => /\ redo.inTx
       /\ ~redo.committed
       /\ applied = redo.before
       /\ exitStatus = 1
       /\ stderr = "MigrationError"

C1_Witness ==
  /\ RedoFailedAtRun
  /\ redo.backend = "pg"
  /\ redo.reverted \in redo.before
  /\ applied = redo.before

C3_RedoReappliesRevertedVersion ==
  cmd = "redo"
    => /\ redo.run # "none" => redo.ran = redo.reverted
       /\ redo.run = "ok" => /\ applied = redo.before
                             /\ redo.reverted \in applied

C3_Witness ==
  /\ pc = "exit" /\ cmd = "redo" /\ exitStatus = 0
  /\ redo.run = "ok"
  /\ ~redo.inTx
  /\ redo.ran = Max(redo.before)
  /\ Cardinality(redo.before) > 1

\* The call that carries out a command's migration step.
MigrationStep(c) ==
  CASE c = "run" -> "run_pending_migrations"
    [] c = "revert" -> "revert_latest_migration"
    [] c = "redo" -> "redo_latest_migration"
    [] c = "db_reset" -> "reset_database"
    [] c \in {"db_setup", "setup"} -> "setup_database"
    [] OTHER -> None

GuardAfterStep ==
  \E i, j \in DOMAIN calls :
    /\ i < j
    /\ calls[i] = MigrationStep(cmd)
    /\ calls[j] = "regenerate_schema"

\* C4: every command that can change which migrations are applied (run,
\* revert, redo, database reset, database setup and setup) invokes the
\* schema-sync guard after its migration step and before it returns success;
\* list, pending and generate never invoke it.
C4_GuardAfterEveryMutatingCommand ==
  /\ (pc = "exit" /\ exitStatus = 0
        /\ cmd \in {"run", "revert", "redo", "db_reset", "db_setup", "setup"})
       => GuardAfterStep
  /\ cmd \in {"list", "pending", "generate"} => ~Called("regenerate_schema")


\* The locked path reached the comparison of the two buffers.
LockedCompared ==
  /\ pc = "exit"
  /\ sync.entered /\ sync.locked
  /\ sync.result \in {"ok", "SchemaOutOfSync"}

\* C5: in locked mode with a schema file configured the guard never creates,
\* truncates or writes the file; a rendering that differs from the file on
\* disk fails with SchemaOutOfSync, an identical one succeeds, and both leave
\* the file as it was.
C5_LockedSyncNeverWrites ==
  /\ (sync.entered /\ sync.locked) => schemaOnDisk = sync.old
  /\ LockedCompared
       => /\ sync.buf = RenderSchema(applied, config.with_docs)
          /\ sync.buf # schemaOnDisk
               => /\ sync.result = "SchemaOutOfSync"
                  /\ stderr = "SchemaOutOfSync"
                  /\ exitStatus = 1
          /\ sync.buf = schemaOnDisk
               => /\ sync.result = "ok"
                  /\ exitStatus = 0

C5_Witness ==
  /\ LockedCompared
  /\ sync.result = "SchemaOutOfSync"
  /\ sync.old \notin {Missing, <<>>}
  /\ schemaOnDisk = sync.old

\* The unlocked path wrote the file and returned Ok.
UnlockedSynced ==
  /\ pc = "exit" /\ exitStatus = 0
  /\ sync.entered /\ ~sync.locked
  /\ sync.result = "ok"

\* C6: in unlocked mode with a schema file configured, a successful sync
\* leaves the file holding exactly the freshly rendered snapshot, whatever it
\* held before and whether or not it or its parent directories existed; the
\* parent directories exist afterwards.
C6_UnlockedSyncWritesSnapshot ==
  UnlockedSynced
    => /\ schemaOnDisk = RenderSchema(applied, config.with_docs)
       /\ schemaParent

C6_Witness ==
  /\ UnlockedSynced
  /\ sync.old \notin {Missing, <<>>}
  /\ sync.old # RenderSchema(applied, config.with_docs)
  /\ schemaOnDisk = RenderSchema(applied, config.with_docs)

\* The schema file was last written by an unlocked sync from the database
\* state and the configuration that hold now.
WrittenFromCurrentState ==
  /\ written.set
  /\ written.db = applied
  /\ written.with_docs = config.with_docs

\* C7: a locked sync that follows an unlocked sync under the same
\* configuration, with the database state the same, never fails with
\* SchemaOutOfSync: the locked path renders the bytes the unlocked path wrote.
C7_LockedAfterUnlockedInSync ==
  (LockedCompared /\ WrittenFromCurrentState)
    => /\ sync.buf = schemaOnDisk
       /\ sync.result = "ok"
       /\ stderr # "SchemaOutOfSync"

C7_Witness ==
  /\ LockedCompared /\ WrittenFromCurrentState
  /\ config.with_docs
  /\ applied # {}
  /\ exitStatus = 0

\* The directories given on the command line, at any level of the chain.
CliValues(chain) == {chain[i] : i \in DOMAIN chain} \ {None}

\* migrations_dir has returned to its caller.
Resolved == pc = "resolved" /\ lookup.used

\* What the fallback search returns in the current file system.
FallbackDir == IF DefaultDir \in existing THEN DefaultDir ELSE None

\* C8: directory resolution is a strict priority cascade: the command-line
\* directory if one is given, else the MIGRATION_DIRECTORY environment value
\* if set, else the config file's migrations_directory if present, else the
\* result of the fallback search.
C8_ResolutionPriority ==
  Resolved
    => IF CliValues(lookup.chain) # {} THEN dir \in CliValues(lookup.chain)
       ELSE IF lookup.env # None THEN dir = lookup.env
       ELSE IF config.migrations_directory # None
            THEN dir = config.migrations_directory
       ELSE dir = FallbackDir

C8_Witness ==
  /\ Resolved
  /\ CliValues(lookup.chain) = {"custom"}
  /\ lookup.env = "migrations"
  /\ "migrations" \in existing
  /\ dir = "custom"

\* The value of the innermost level of the chain that gives one.
RECURSIVE InnermostGiven(_)
InnermostGiven(chain) ==
  IF chain = <<>> THEN None
  ELSE IF Last(chain) # None THEN Last(chain)
  ELSE InnermostGiven(SubSeq(chain, 1, Len(chain) - 1))

\* C9: when several levels of the subcommand chain give a migration
\* directory, the lookup returns the one given on the subcommand being run,
\* or else the one of the innermost parent that gives one; none only when no
\* level gives one.
C9_InnermostCliDirectoryWins ==
  Resolved
    => IF CliValues(lookup.chain) # {}
       THEN dir = InnermostGiven(lookup.chain)
       ELSE migrations_dir_from_cli(lookup.chain) = None

\* One of the three configured tiers names a directory.
ConfiguredTier ==
  \/ CliValues(lookup.chain) # {}
  \/ lookup.env # None
  \/ config.migrations_directory # None

ExecutionCalls ==
  {"run_pending_migrations", "revert_latest_migration",
   "run_migration_with_version", "mark_migrations", "any_pending_migrations"}

ConfiguredValue ==
  IF CliValues(lookup.chain) # {} THEN migrations_dir_from_cli(lookup.chain)
  ELSE IF lookup.env # None THEN lookup.env
  ELSE config.migrations_directory

\* C11. The legacy cleanup is best-effort and limited.  It runs only when the
\* directory came from the command line, the environment or the config file,
\* never for a directory of the fallback search; the only thing it deletes is
\* the file `.gitkeep` directly inside that directory; and a directory that
\* cannot be read or a deletion that fails never makes resolution fail: the
\* same directory is returned, with the file system as it was.
C11_LegacyCleanupBestEffort ==
  lookup.used
    => /\ gitkeep \subseteq lookup.keeps
       /\ gitkeep # lookup.keeps
            => /\ Resolved
               /\ ConfiguredTier
               /\ lookup.cleanup = "removed"
               /\ dir = ConfiguredValue
               /\ lookup.keeps \ gitkeep = {dir}
       /\ ~ConfiguredTier
            => /\ lookup.cleanup = "none"
               /\ gitkeep = lookup.keeps
       /\ lookup.cleanup \in {"unreadable", "warned"}
            => /\ Resolved
               /\ ConfiguredTier
               /\ dir = ConfiguredValue
               /\ gitkeep = lookup.keeps

\* The deletion of custom/.gitkeep failed; `custom` is returned all the same.
C11_Witness ==
  /\ Resolved
  /\ lookup.cleanup = "warned"
  /\ dir = "custom"
  /\ "custom" \in gitkeep

\* ------------------------------------------------------------- setup flow
\* The paths of which `path` is a continuation: path itself and what is left
\* of it after dropping components from its end, down to the root directory
\* for an absolute path and to the empty path for a relative one.
AncestorsOrSelf(path) ==
  {SubSeq(path, 1, k) : k \in (IF is_absolute(path) THEN 1 ELSE 0)..Len(path)}

HasMarker(d, files) == \E i \in DOMAIN Markers : Append(d, Markers[i]) \in files

SetupSearched == cmd = "setup" /\ setup.searched

C12_Created ==
  /\ cmd = "setup"
  /\ pc = "exit"
  /\ exitStatus = 0
  /\ Called("find_project_root")
  /\ setup.ensured /\ ~setup.existed /\ setup.keep


\* ------------------------------------------------------------ exit status
\* C13. The exit status is uniform: every failure of any command (directory
\* not found, configuration error, migration-execution error, redo failure,
\* schema out of sync, unrecognized migration format, a file-system error
\* such as the failed creation of the migration folder in generate) prints
\* the error and ends the process with status 1, and a command that met no
\* error ends with status 0.
C13_UniformExitStatus ==
  pc = "exit"
    => /\ exitStatus \in {0, 1}
       /\ exitStatus = 1 <=> stderr # None
       /\ (cmd = "generate" /\ generated = "none" /\ Called("create_dir"))
            => exitStatus = 1


\* ------------------------------------------------------------ sync no-op
\* The guard ran with a configuration that names no print_schema file.
NoOpSync ==
  /\ Called("regenerate_schema")
  /\ config.state = "ok"
  /\ ~config.file

\* C14. Schema sync is a no-op when the configuration names no print_schema
\* file: no directory is created, no file is read, created or written, the
\* renderer is not called, and the guard returns success, in locked and in
\* unlocked mode alike.
C14_SyncNoOpWithoutFile ==
  NoOpSync
    => /\ pc = "exit"
       /\ exitStatus = 0
       /\ stderr = None
       /\ Last(calls) = "regenerate_schema"
       /\ ~sync.entered
       /\ sync.buf = Missing
       /\ sync.result = "none"
       /\ schemaParent = sync.parent
       /\ schemaOnDisk = sync.old

\* Locked mode, a stale schema file on disk, its parent directory present.
C14_Witness ==
  /\ NoOpSync
  /\ sync.locked
  /\ sync.old \notin {Missing, <<>>}
  /\ sync.old # RenderSchema(applied, config.with_docs)

\* Unlocked mode, neither the schema file nor its parent directory exists.
C14_WitnessUnlocked ==
  /\ NoOpSync
  /\ ~sync.locked
  /\ ~schemaParent
  /\ schemaOnDisk = Missing


\* ------------------------------------------------------ redo failure final
\* How many times this invocation called `op`.
Count(op) == Cardinality({i \in DOMAIN calls : calls[i] = op})

RedoFailed == redo.revert = "err" \/ redo.run = "err"

\* C20. A redo failure is final.  When revert-latest fails, apply-by-version
\* is never called; after the failure of either step neither call is issued
\* again in that invocation (each is called at most once), the schema-sync
\* guard is not run, and the command ends failed with a non-zero status.
C20_RedoFailureIsFinal ==
  cmd = "redo"
    => /\ Count("revert_latest_migration") <= 1
       /\ Count("run_migration_with_version") <= 1
       /\ redo.revert = "err" => ~Called("run_migration_with_version")
       /\ RedoFailed
            => /\ pc = "exit"
               /\ exitStatus = 1
               /\ stderr = "MigrationError"
               /\ ~Called("regenerate_schema")
               /\ Last(calls) = IF redo.revert = "err"
                                THEN "revert_latest_migration"
                                ELSE "run_migration_with_version"

\* The revert of the latest of two applied migrations failed.
C20_Witness ==
  /\ cmd = "redo"
  /\ redo.revert = "err"
  /\ pc = "exit"
  /\ Cardinality(redo.before) = 2


\* ======================================================= library functions
\* The functions of main.rs that compute on paths and names without touching
\* the program state are applied to inputs drawn at the start: FnSpec.

\* Paths of at most MaxDepth names, relative or under the root directory.
MaxDepth == 2

\* At most MaxFiles regular files named `file` exist.
MaxFiles == 2

Names == {"a", "b"}

NamePaths == UNION {[1..k -> Names] : k \in 0..MaxDepth}

FnPaths == NamePaths \cup {<<RootDir>> \o p : p \in NamePaths}

\* Mutant of convert_loop: when the base runs out of parents the `..`
\* segments pushed so far are kept in front of the target.
RECURSIVE convert_loop_keeps_result(_, _, _)
convert_loop_keeps_result(target_path, current_path, result) ==
  IF starts_with(target_path, current_path)
  THEN join(result, strip_prefix(target_path, current_path))
  ELSE LET pushed == join(result, <<ParentDir>>)
       IN IF has_parent(current_path)
          THEN convert_loop_keeps_result(target_path, parent(current_path), pushed)
          ELSE join(pushed, target_path)

\* fn convert_absolute_path_to_relative, lines 372-380: the loop, from the
\* state (current_path, result) it is in.
RECURSIVE convert_loop(_, _, _)
convert_loop(target_path, current_path, result) ==
  IF starts_with(target_path, current_path)
  THEN join(result, strip_prefix(target_path, current_path))
  ELSE LET pushed == join(result, <<ParentDir>>)
       IN IF has_parent(current_path)
          THEN convert_loop(target_path, parent(current_path), pushed)
          ELSE target_path

\* Mutant of convert_absolute_path_to_relative: no `..` segment is pushed.
convert_without_parent_segments(target_path, current_path) ==
  SelectSeq(convert_loop(target_path, current_path, <<>>),
            LAMBDA c : c # ParentDir)

\* fn convert_absolute_path_to_relative: `result` starts as PathBuf::new().
convert_absolute_path_to_relative(target_path, current_path) ==
  convert_loop(target_path, current_path, <<>>)

\* The inputs of one call.
RelativizeCalls ==
  [op : {"relativize"}, target : FnPaths, base : FnPaths, done : {FALSE},
   result : {<<>>}]

\* The sets of at most n of the files `candidates`.
RECURSIVE FileSets(_, _)
FileSets(candidates, n) ==
  IF n = 0 THEN {{}}
  ELSE LET fewer == FileSets(candidates, n - 1)
       IN fewer \cup {s \cup {f} : s \in fewer, f \in candidates}

SearchCalls ==
  {[op |-> "search", path |-> p, file |-> "Cargo.toml", files |-> fs,
    done |-> FALSE, result |-> [ok |-> FALSE, path |-> <<>>]] :
     p \in FnPaths,
     fs \in FileSets({Append(d, "Cargo.toml") : d \in FnPaths}, MaxFiles)}


\* The program's own variables; the library functions leave them alone.
progVars == <<pc, cmd, applied, existing, gitkeep, schemaParent, schemaOnDisk,
              lookup, config, dir, redo, sync, calls, exitStatus, stderr,
              generated, written, setup, listed>>

\* No command is running while a library function is evaluated.
IdleProgram ==
  /\ pc = "idle"
  /\ cmd = None
  /\ applied = {}
  /\ existing = {}
  /\ gitkeep = {}
  /\ schemaParent = FALSE
  /\ schemaOnDisk = Missing
  /\ lookup = NoLookup
  /\ config = Unread
  /\ dir = None
  /\ redo = NoRedo
  /\ sync = NoSync
  /\ calls = <<>>
  /\ exitStatus = -1
  /\ stderr = None
  /\ generated = "none"
  /\ written = NotWritten
  /\ setup = NoSetup
  /\ listed = NoListing

\* convert_absolute_path_to_relative(target, base) is evaluated.
Relativize ==
  /\ call.op = "relativize" /\ ~call.done
  /\ call' = [call EXCEPT !.done = TRUE,
                          !.result = convert_absolute_path_to_relative(
                                       call.target, call.base)]
  /\ UNCHANGED progVars

\* search_for_directory_containing_file(path, file) is evaluated.
SearchDirectory ==
  /\ call.op = "search" /\ ~call.done
  /\ call' = [call EXCEPT !.done = TRUE,
                          !.result = search_for_directory_containing_file(
                                       call.path, call.file, call.files)]
  /\ UNCHANGED progVars


\* ------------------------------------------------------ version allocation
\* A numeric field of the time format: zero-padded to `width` digits.
RECURSIVE ZeroPadded(_, _)
ZeroPadded(text, width) ==
  IF Len(text) >= width THEN text ELSE ZeroPadded(<<"0">> \o text, width)

\* Utc::now().format(TIMESTAMP_FORMAT): the format is YYYYMMDDHHMMSS.
format_timestamp(now) ==
  ZeroPadded(Decimal(now.year), 4) \o ZeroPadded(Decimal(now.month), 2)
    \o ZeroPadded(Decimal(now.day), 2) \o ZeroPadded(Decimal(now.hour), 2)
    \o ZeroPadded(Decimal(now.minute), 2) \o ZeroPadded(Decimal(now.second), 2)

\* matches.value_of("MIGRATION_VERSION"): an Option<&str>.
NoText == [some |-> FALSE, text |-> <<>>]

SomeText(text) == [some |-> TRUE, text |-> text]

\* Mutant of migration_version: the clock is used whatever the arguments say.
migration_version_from_clock(version_arg, now) == format_timestamp(now)

\* fn migration_version.
migration_version(version_arg, now) ==
  IF version_arg.some THEN version_arg.text ELSE format_timestamp(now)

\* fn run_migration_command, ("generate", _), line 120:
\* format!("{}_{}", version, migration_name).
versioned_name(version, migration_name) ==
  version \o <<"_">> \o migration_name

\* The instants the clock can show, around changes of the number of digits
\* of a field and of the fields above the seconds.
Times ==
  [year : {2026, 2027}, month : {9, 10}, day : {1}, hour : {9, 10},
   minute : {59}, second : {0, 59}]

VersionTexts == {SomeText(<<"v", "1">>), SomeText(<<>>), SomeText(<<"0", "7">>)}

MigrationNames == {<<"a", "d", "d">>, <<"A", "_", "1">>}

GenerateNameCalls ==
  [op : {"generate_name"}, version_arg : VersionTexts \cup {NoText},
   now : Times, later : Times, name : MigrationNames, done : {FALSE},
   version : {<<>>}, later_version : {<<>>}, folder : {<<>>}]

\* generate computes the version and the folder name; `later_version` is
\* what a second generate without a version argument computes at `later`.
GenerateName ==
  /\ call.op = "generate_name" /\ ~call.done
  /\ LET version == migration_version(call.version_arg, call.now)
     IN call' = [call EXCEPT !.done = TRUE,
                             !.version = version,
                             !.later_version = migration_version(NoText, call.later),
                             !.folder = versioned_name(version, call.name)]
  /\ UNCHANGED progVars

\* ------------------------------------------------------- limit and offset
\* The LIMIT and OFFSET values of a query: 0..MaxClause.
MaxClause == 3

\* The rows the tests insert into `users`, in this order; hair_color is NULL.
UserNames == <<"Sean", "Tess", "Ruby">>

Tables == {SubSeq(UserNames, 1, k) : k \in 0..Len(UserNames)}

\* A query without the clause.
NoClause == -1

\* users: the query the chain starts from.
users == [selected |-> FALSE, limit |-> NoClause, offset |-> NoClause,
          boxed |-> FALSE]

\* The methods of the query builder a chain applies, one step each.
Select == [method |-> "select", arg |-> 0]
IntoBoxed == [method |-> "into_boxed", arg |-> 0]
Limit(n) == [method |-> "limit", arg |-> n]
Offset(m) == [method |-> "offset", arg |-> m]

\* One method applied to a query: a clause is set, the others are kept;
\* into_boxed only erases the query's type.
apply_method(q, step) ==
  CASE step.method = "select" -> [q EXCEPT !.selected = TRUE]
    [] step.method = "limit" -> [q EXCEPT !.limit = step.arg]
    [] step.method = "offset" -> [q EXCEPT !.offset = step.arg]
    [] step.method = "into_boxed" -> [q EXCEPT !.boxed = TRUE]

RECURSIVE build_query(_, _)
build_query(q, chain) ==
  IF chain = <<>> THEN q
  ELSE build_query(apply_method(q, Head(chain)), Tail(chain))

\* Mutant of load: LIMIT is applied before OFFSET.
load_limit_first(q, rows) ==
  LET taken == IF q.limit = NoClause THEN rows
               ELSE SubSeq(rows, 1, IF q.limit < Len(rows) THEN q.limit ELSE Len(rows))
      skipped == IF q.offset = NoClause THEN taken
                 ELSE SubSeq(taken, q.offset + 1, Len(taken))
  IN [i \in 1..Len(skipped) |-> <<skipped[i], None>>]

\* load: the database evaluates SELECT name, hair_color FROM users
\* [LIMIT n] [OFFSET m] over the rows in insertion order.
load(q, rows) ==
  LET skipped == IF q.offset = NoClause THEN rows
                 ELSE SubSeq(rows, q.offset + 1, Len(rows))
      taken == IF q.limit = NoClause THEN skipped
               ELSE SubSeq(skipped, 1,
                           IF q.limit < Len(skipped) THEN q.limit ELSE Len(skipped))
  IN [i \in 1..Len(taken) |-> <<taken[i], None>>]

RECURSIVE Orderings(_)
Orderings(S) ==
  IF S = {} THEN {<<>>}
  ELSE UNION {{<<x>> \o o : o \in Orderings(S \ {x})} : x \in S}

\* The chains: select, with or without limit, offset and into_boxed, in
\* any order.
QueryChains ==
  UNION {Orderings({Select} \cup extra) :
           extra \in UNION {SUBSET {Limit(n), Offset(m), IntoBoxed} :
                              n \in 0..MaxClause, m \in 0..MaxClause}}

LoadCalls ==
  [op : {"load"}, rows : Tables, chain : QueryChains, done : {FALSE},
   result : {<<>>}]

\* chain.load(connection) is evaluated.
LoadQuery ==
  /\ call.op = "load" /\ ~call.done
  /\ call' = [call EXCEPT !.done = TRUE,
                          !.result = load(build_query(users, call.chain),
                                          call.rows)]
  /\ UNCHANGED progVars

\* ------------------------------------------------------------------ FnSpec
FnInit ==
  /\ IdleProgram
  /\ call \in RelativizeCalls \cup SearchCalls \cup GenerateNameCalls
                \cup LoadCalls

FnNext ==
  \/ Relativize
  \/ SearchDirectory
  \/ GenerateName
  \/ LoadQuery

FnSpec == FnInit /\ [][FnNext]_vars


\* ========================================================= library claims
IsPrefix(p, q) == Len(p) <= Len(q) /\ \A i \in 1..Len(p) : p[i] = q[i]

\* Lexical normalization: each `..` cancels the segment before it.
RECURSIVE Normalized(_, _)
Normalized(path, kept) ==
  IF path = <<>> THEN kept
  ELSE IF /\ Head(path) = ".."
          /\ kept # <<>>
          /\ Last(kept) \notin {"..", "/"}
  THEN Normalized(Tail(path), SubSeq(kept, 1, Len(kept) - 1))
  ELSE Normalized(Tail(path), Append(kept, Head(path)))

\* `rel` joined onto `base`: a rooted `rel` stands for itself.
JoinedOnto(base, rel) ==
  IF rel # <<>> /\ Head(rel) = "/" THEN rel ELSE base \o rel

Relativized == call.op = "relativize" /\ call.done

Reachable(target, base) == \E a \in AncestorsOrSelf(base) : IsPrefix(a, target)

\* C15. Path relativization round-trips: for every target t and base b such
\* that some ancestor-or-self of b is a prefix of t, joining
\* convert_absolute_path_to_relative(t, b) onto b and normalizing lexically
\* yields t.
C15_RelativizeRoundTrips ==
  (Relativized /\ Reachable(call.target, call.base))
    => Normalized(JoinedOnto(call.base, call.result), <<>>) = call.target

\* /a/b seen from /a/a is ../b.
C15_Witness ==
  /\ Relativized
  /\ call.base = <<"/", "a", "a">>
  /\ call.target = <<"/", "a", "b">>
  /\ call.result = <<"..", "b">>

\* The numbers of parent steps after which what is left of base is a prefix
\* of target.
MatchingSteps(target, base) ==
  {k \in 0..(Len(base) - (IF base # <<>> /\ Head(base) = "/" THEN 1 ELSE 0)) :
     IsPrefix(SubSeq(base, 1, Len(base) - k), target)}

Least(S) == CHOOSE x \in S : \A y \in S : x <= y

ParentSegments(k) == [i \in 1..k |-> ".."]

Remainder(target, base, k) == SubSeq(target, Len(base) - k + 1, Len(target))

C16_Escape ==
  /\ Relativized
  /\ call.base = <<"/", "a">>
  /\ call.target = <<"b">>
  /\ call.result = <<"b">>

Searched == call.op = "search" /\ call.done

\* The directories among path and its ancestors that hold the file.
Holders ==
  {d \in AncestorsOrSelf(call.path) : Append(d, call.file) \in call.files}

\* C17. search_for_directory_containing_file(path, file) returns the nearest
\* directory among path and its ancestors that directly contains a regular
\* file named `file`; when there is none up to the root it returns
\* ProjectRootNotFound carrying the path the search started from, not an
\* ancestor visited on the way.
C17_SearchFindsNearestHolder ==
  Searched
    => /\ call.result.ok <=> Holders # {}
       /\ call.result.ok
            => /\ call.result.path \in Holders
               /\ \A d \in Holders : Len(d) <= Len(call.result.path)
       /\ ~call.result.ok => call.result.path = call.path

\* Nothing found from /a/b although /b holds the file.
C17_Witness ==
  /\ Searched
  /\ call.path = <<"/", "a", "b">>
  /\ call.files = {<<"/", "b", "Cargo.toml">>}
  /\ ~call.result.ok

\* Time order of two instants.
Before(s, t) ==
  LET a == <<s.year, s.month, s.day, s.hour, s.minute, s.second>>
      b == <<t.year, t.month, t.day, t.hour, t.minute, t.second>>
  IN \E i \in 1..6 : a[i] < b[i] /\ \A j \in 1..(i - 1) : a[j] = b[j]

IsDigit(c) == \E i \in DOMAIN DigitChars : DigitChars[i] = c

DigitValue(c) == CHOOSE i \in DOMAIN DigitChars : DigitChars[i] = c

\* Lexicographic order of two texts of digits.
LexLess(s, t) ==
  \/ Len(s) < Len(t) /\ IsPrefix(s, t)
  \/ \E i \in 1..Len(s) :
       /\ i <= Len(t)
       /\ DigitValue(s[i]) < DigitValue(t[i])
       /\ \A j \in 1..(i - 1) : s[j] = t[j]

FourteenDigits(text) == Len(text) = 14 /\ \A i \in 1..14 : IsDigit(text[i])

NameGenerated == call.op = "generate_name" /\ call.done

\* C18. In generate an explicit version text is used verbatim whatever its
\* content; without one the version is the current UTC time as a 14-digit
\* fixed-width text whose lexicographic order agrees with the order of time;
\* the folder is named exactly <version>_<migration_name>, the name unchanged.
C18_VersionAndFolderName ==
  NameGenerated
    => /\ call.version_arg.some => call.version = call.version_arg.text
       /\ ~call.version_arg.some
            => /\ FourteenDigits(call.version)
               /\ FourteenDigits(call.later_version)
               /\ Before(call.now, call.later)
                    <=> LexLess(call.version, call.later_version)
       /\ Len(call.folder) = Len(call.version) + 1 + Len(call.name)
       /\ IsPrefix(call.version, call.folder)
       /\ call.folder[Len(call.version) + 1] = "_"
       /\ SubSeq(call.folder, Len(call.version) + 2, Len(call.folder)) = call.name

\* The empty text given as version: the folder is `_A_1`.
C18_Witness ==
  /\ NameGenerated
  /\ call.version_arg = SomeText(<<>>)
  /\ call.folder = <<"_", "A", "_", "1">>

\* September 2026 before October 2026: 20260901095959 < 20261001090000.
C18_Ordered ==
  /\ NameGenerated
  /\ ~call.version_arg.some
  /\ call.version = <<"2","0","2","6","0","9","0","1","0","9","5","9","5","9">>
  /\ call.later_version = <<"2","0","2","6","1","0","0","1","0","9","5","9","0","0">>

Loaded == call.op = "load" /\ call.done

\* The LIMIT and OFFSET a chain asks for, -1 for none.
Asked(chain, method) ==
  IF \E i \in DOMAIN chain : chain[i].method = method
  THEN (CHOOSE s \in {chain[i] : i \in DOMAIN chain} : s.method = method).arg
  ELSE -1

\* What the tests of limit_offset.rs assert: table, chain, expected rows.
TestCases ==
  LET two == <<"Sean", "Tess">>
      three == <<"Sean", "Tess", "Ruby">>
      sean == << <<"Sean", None>> >>
      tess == << <<"Tess", None>> >>
      ruby == << <<"Ruby", None>> >>
  IN { [rows |-> two, chain |-> <<Select, Limit(1)>>, expected |-> sean],
       [rows |-> two, chain |-> <<Select, Offset(1)>>, expected |-> tess],
       [rows |-> three, chain |-> <<Select, Limit(1), Offset(2)>>, expected |-> ruby],
       [rows |-> two, chain |-> <<IntoBoxed, Select, Limit(1)>>, expected |-> sean],
       [rows |-> two, chain |-> <<Select, Limit(1), IntoBoxed>>, expected |-> sean],
       [rows |-> two, chain |-> <<Select, IntoBoxed, Offset(1)>>, expected |-> tess],
       [rows |-> two, chain |-> <<Select, Offset(1), IntoBoxed>>, expected |-> tess],
       [rows |-> three, chain |-> <<IntoBoxed, Select, Limit(1), Offset(2)>>,
        expected |-> ruby],
       [rows |-> three, chain |-> <<Select, Limit(1), Offset(2), IntoBoxed>>,
        expected |-> ruby],
       [rows |-> three, chain |-> <<Select, Limit(1), IntoBoxed, Offset(2)>>,
        expected |-> ruby],
       [rows |-> three, chain |-> <<Select, Offset(2), IntoBoxed, Limit(1)>>,
        expected |-> ruby] }

ListPrinted == pc = "exit" /\ cmd = "list" /\ listed.done

\* The version of a printed folder name: the text before the first `_`.
PrintedVersion(name) ==
  SubSeq(name, 1, (CHOOSE i \in 1..Len(name) :
                     name[i] = "_" /\ \A j \in 1..(i - 1) : name[j] # "_") - 1)

\* C21. The list command prints the migrations in ascending order of their
\* version compared as strings (lexicographically, not numerically), each
\* once, marked applied or not applied exactly as the migration-execution
\* service reported it; the applied-migration set is not changed by list.
C21_ListSortedByVersionString ==
  cmd = "list"
    => /\ applied = listed.db
       /\ ListPrinted
            => /\ exitStatus = 0
               /\ Len(listed.printed) = Len(listed.report)
               /\ \A i, j \in 1..Len(listed.printed) :
                    i < j => LexLess(PrintedVersion(listed.printed[i].name),
                                     PrintedVersion(listed.printed[j].name))
               /\ \A k \in 1..Len(listed.report) :
                    \E i \in 1..Len(listed.printed) :
                      /\ listed.printed[i].name = file_name(listed.report[k].version)
                      /\ listed.printed[i].x = "X" <=> listed.report[k].applied
                      /\ listed.printed[i].x \in {"X", " "}

\* The service reports version "2" (not applied) before version "10"
\* (applied); list prints "10" first although 10 > 2 as numbers.
C21_Witness ==
  /\ ListPrinted
  /\ Len(listed.report) >= 2
  /\ version_text(listed.report[1].version) = <<"2">>
  /\ version_text(listed.report[2].version) = <<"1", "0">>
  /\ listed.printed[1] = [x |-> "X", name |-> <<"1", "0", "_", "m">>]
  /\ listed.printed[2] = [x |-> " ", name |-> <<"2", "_", "m">>]


\* ------------------------------------------------- unlocked render failure
RenderFailed == pc = "exit" /\ sync.entered /\ sync.result = "RenderError"

\* C22. In unlocked mode the schema file is created or truncated before the
\* snapshot is rendered: while the rendering is pending the file is empty,
\* and when the rendering fails the command reports the error with the file
\* left empty, whatever it held before; in locked mode a failed rendering
\* leaves the file as it was.
C22_RenderFailureLeavesFileEmpty ==
  /\ pc = "sync_write" => ~sync.locked /\ schemaOnDisk = <<>>
  /\ RenderFailed
       => /\ exitStatus = 1
          /\ stderr = "RenderError"
          /\ schemaOnDisk = (IF sync.locked THEN sync.old ELSE <<>>)

\* An unlocked sync found a rendered schema in the file, the rendering
\* failed, and the file is empty.
C22_Witness ==
  /\ RenderFailed
  /\ ~sync.locked
  /\ sync.old # Missing
  /\ Len(sync.old) > 0
  /\ schemaOnDisk = <<>>


\* --------------------------------------------------------------- generate
FormatRejected ==
  pc = "exit" /\ cmd = "generate" /\ stderr = "UnrecognizedMigrationFormat"

\* C23. In generate the versioned folder is created before the migration
\* format is examined: the folder exists, empty, when the format is looked
\* at, and a command that fails with the unrecognized-migration-format error
\* leaves that new, empty folder behind, its status 1; up.sql and down.sql
\* are in the folder only when the sql generator ran.
C23_FolderCreatedBeforeFormat ==
  /\ pc = "gen_format" => generated = "empty" /\ Last(calls) = "create_dir"
  /\ FormatRejected
       => /\ exitStatus = 1
          /\ generated = "empty"
          /\ Last(calls) = "create_dir"
  /\ generated \in {"sql", "partial"} => Called("generate_sql_migration")
  /\ pc = "exit" /\ cmd = "generate" /\ exitStatus = 0
       => (generated = "sql" <=> Called("generate_sql_migration"))

\* A generate with an unrecognized format has ended with the empty folder.
C23_Witness ==
  /\ FormatRejected
  /\ generated = "empty"
  /\ Called("create_dir")
  /\ ~Called("generate_sql_migration")
  /\ exitStatus = 1

=============================================================================
